---- MODULE Spec2Model ----
(***************************************************************************)
(* The X11 selection protocol of clipboard_linux.c: clipboard_test,        *)
(* clipboard_write (the owner loop), clipboard_read and read_data, run as  *)
(* concurrent clients of one X server.  The server side (selection owner,  *)
(* per-connection event queues, window properties, interned atoms) is the  *)
(* state the Xlib calls of the source act on.                              *)
(*                                                                         *)
(* An atom is modelled by its name (XInternAtom is a bijection between     *)
(* names and identifiers), a window by the process that created it, and    *)
(* the C value None / NULL by the string "None" or an empty sequence.      *)
(***************************************************************************)
EXTENDS Integers, Sequences, FiniteSets, TLC

VARIABLES
    atoms,      \* X server: names interned so far
    owner,      \* X server: window owning CLIPBOARD, or None
    queue,      \* X server: per connection, the events not yet taken by XNextEvent
    props,      \* X server: per window, property name -> value
    pc,         \* per operation: where its thread stands
    typ,        \* argument typ of clipboard_write / clipboard_read
    wbuf,       \* arguments buf[0..n-1] of clipboard_write
    ret,        \* <<>> while running, <<code>> once the operation returned
    status,     \* per writer: the codes handed to syncStatus(handle, .), in order
    notified,   \* per writer: the local variable notified
    opens,      \* per operation: successful XOpenDisplay calls
    closes,     \* per operation: XCloseDisplay calls
    attempts,   \* per operation: XOpenDisplay calls made by the retry loop
    refused,    \* per operation: XOpenDisplay calls the server refuses before it accepts one
    sev,        \* per reader: the SelectionNotify event handed to read_data
    actual,     \* per reader: actual_type_return of XGetWindowProperty
    rn,         \* per reader: value returned by read_data
    rbuf,       \* per reader: *buf; <<>> while untouched, <<bytes>> once assigned
    claimed,    \* history: writers that issued XSetSelectionOwner
    conv,       \* history: per reader, the owner and the ready writers at XConvertSelection
    nevt,       \* history: per writer, events returned by XNextEvent
    nreq,       \* history: per writer, SelectionRequest events among them
    nrep,       \* history: per writer, XSendEvent replies issued
    injected    \* history: events sent by clients outside this library

vars == <<atoms, owner, queue, props, pc, typ, wbuf, ret, status, notified,
          opens, closes, attempts, refused, sev, actual, rn, rbuf, claimed, conv,
          nevt, nreq, nrep, injected>>

(***************************************************************************)
(* Bounds and program constants.                                           *)
(***************************************************************************)
MaxLen == 1

MaxInject == 1

MaxAttempts == 42

Writers == {"w1", "w2"}

Readers == {"r1"}

Testers == {"t1"}

Procs == Writers \cup Readers \cup Testers

None == "None"

Bytes == {0, 255}

RECURSIVE SeqsUpTo(_)
SeqsUpTo(n) ==
    IF n = 0 THEN {<<>>}
    ELSE LET S == SeqsUpTo(n - 1)
         IN  S \cup {Append(s, b) : s \in {x \in S : Len(x) = n - 1}, b \in Bytes}

Payloads == SeqsUpTo(MaxLen)

\* Atoms every X server predefines (Xatom.h): they resolve with only_if_exists.
PredefinedAtoms == {"PRIMARY", "ATOM", "STRING"}

XA_ATOM == "ATOM"

sel == "CLIPBOARD"

atomString == "UTF8_STRING"

atomImage == "image/png"

targetsAtom == "TARGETS"

prop == "GOLANG_DESIGN_DATA"

\* Type strings a caller may pass to clipboard_write: the two supported ones, a
\* predefined atom that is neither, and a name no client ever interned.
WriteTypes == {atomString, atomImage, "STRING", "text/html"}

\* Type strings a caller may pass to clipboard_read.
ReadTypes == {atomString, atomImage, targetsAtom}

PropNames == {prop, "OTHER"}

NoProp == [type |-> None, format |-> 0, data |-> <<>>]

NoProps == [p \in PropNames |-> NoProp]

NoEvent == [type |-> None, selection |-> None, target |-> None,
            property |-> None, requestor |-> None]

NoConv == [issued |-> FALSE, owner |-> None, serving |-> FALSE, ready |-> {}]

(***************************************************************************)
(* Xlib / X server primitives.                                             *)
(***************************************************************************)
\* A window lives from XCreateSimpleWindow to XCloseDisplay of its connection.
WindowExists(win) == win \in Procs /\ opens[win] > closes[win]

\* XInternAtom(d, name, only_if_exists): None when the name must exist and does not.
XInternAtom(known, name, only_if_exists) ==
    IF only_if_exists /\ name \notin known THEN None ELSE name

\* XChangeProperty(..., PropModeReplace, ...): the server replaces the property
\* when the window exists; Xlib returns 1 whatever the server does.
XChangeProperty(P, win, name, type, format, data, n) ==
    [props |-> IF WindowExists(win) /\ name \in PropNames
               THEN [P EXCEPT ![win][name] =
                        [type |-> type, format |-> format, data |-> SubSeq(data, 1, n)]]
               ELSE P,
     R |-> 1]

\* XSendEvent(d, w, False, 0, ev): delivered to the client that created w.
XSendEvent(Q, win, ev) ==
    IF WindowExists(win) THEN [Q EXCEPT ![win] = Append(@, ev)] ELSE Q

\* R & 2 on the small non-negative values R takes.
BitAnd2(R) == ((R \div 2) % 2) * 2

\* The bytes Xlib hands back for one 32-bit item: a long, 8 bytes, low byte first.
RECURSIVE LongBytes(_, _)
LongBytes(x, k) == IF k = 0 THEN <<>> ELSE <<x % 256>> \o LongBytes(x \div 256, k - 1)

\* Atom identifiers: the predefined ones of Xatom.h, then those a server hands
\* out to the names this library interns.
AtomId(a) ==
    CASE a = "PRIMARY"   -> 1
      [] a = "ATOM"      -> 4
      [] a = "STRING"    -> 31
      [] a = sel         -> 69
      [] a = atomString  -> 70
      [] a = atomImage   -> 71
      [] a = targetsAtom -> 72
      [] a = prop        -> 73
      [] OTHER           -> 74

RECURSIVE ClientData(_, _)
ClientData(format, items) ==
    IF format # 32 THEN items
    ELSE IF items = <<>> THEN <<>>
    ELSE LongBytes(AtomId(Head(items)), 8) \o ClientData(format, Tail(items))

\* Faulty variant of Memcpy: one byte short.
Memcpy_OneShort(src, size) == SubSeq(src, 1, size - 1)

\* memcpy(dst, src, size): the first size bytes of src.
Memcpy(src, size) == SubSeq(src, 1, size)

(***************************************************************************)
(* The connection retry loop shared by the three operations.               *)
(* fails = how many XOpenDisplay calls return NULL before one succeeds.    *)
(***************************************************************************)
\* Faulty variant of OpenLoop: the loop has no break.
OpenLoop_NoBreak(i, fails) ==
    [d |-> fails < MaxAttempts, tries |-> MaxAttempts, refused |-> fails]

RECURSIVE OpenLoop(_, _)
OpenLoop(i, fails) ==
    IF i < MaxAttempts
    THEN IF i < fails
         THEN OpenLoop(i + 1, fails)              \* d == NULL: continue
         ELSE [d |-> TRUE, tries |-> i + 1, refused |-> fails]       \* break
    ELSE [d |-> FALSE, tries |-> i, refused |-> fails]

\* Outcomes of the display server the model explores: up at once, or down for
\* the whole loop.
QuickOutcomes == {0, MaxAttempts}

\* Every outcome of the display server: it accepts the first call, or only
\* after some refusals, or not within the loop's attempts.
AllOutcomes == 0 .. (MaxAttempts + 1)

(***************************************************************************)
(* Pieces of state change shared by the operations.                        *)
(***************************************************************************)
\* XCloseDisplay(d): the connection's window, its properties and its pending
\* events go; a selection the window owned has no owner any more.
XCloseDisplay(p) ==
    /\ closes' = [closes EXCEPT ![p] = @ + 1]
    /\ owner' = IF owner = p THEN None ELSE owner
    /\ queue' = [queue EXCEPT ![p] = <<>>]
    /\ props' = [props EXCEPT ![p] = NoProps]

SyncStatus(w, code) == status' = [status EXCEPT ![w] = Append(@, code)]

Return(p, code) ==
    /\ pc' = [pc EXCEPT ![p] = "done"]
    /\ ret' = [ret EXCEPT ![p] = <<code>>]

(***************************************************************************)
(* clipboard_write                                                         *)
(***************************************************************************)
\* dlopen failed: return -1.
WriteNoLibrary(w) ==
    /\ Return(w, -1)
    /\ UNCHANGED <<atoms, owner, queue, props, typ, wbuf, status, opens, closes, attempts, refused>>

\* d == NULL after the loop: syncStatus(handle, -1); return -1.
WriteUnavailable(w, o) ==
    /\ attempts' = [attempts EXCEPT ![w] = o.tries]
    /\ refused' = [refused EXCEPT ![w] = o.refused]
    /\ SyncStatus(w, -1)
    /\ Return(w, -1)
    /\ UNCHANGED <<atoms, owner, queue, props, typ, wbuf, opens, closes>>

\* Faulty variant of WriteInvalidType: the status of the serving path is sent.
WriteInvalidType_Ready(w) ==
    /\ XCloseDisplay(w)
    /\ SyncStatus(w, 1)
    /\ Return(w, -2)

\* target == None: XCloseDisplay; syncStatus(handle, -2); return -2.
WriteInvalidType(w) ==
    /\ XCloseDisplay(w)
    /\ SyncStatus(w, -2)
    /\ Return(w, -2)

\* The window and the five XInternAtom calls.
WriteConnected(w, o, t, b) ==
    LET known  == atoms \cup {sel, atomString, atomImage, targetsAtom}
        target == XInternAtom(known, t, TRUE)
    IN  /\ attempts' = [attempts EXCEPT ![w] = o.tries]
        /\ refused' = [refused EXCEPT ![w] = o.refused]
        /\ opens' = [opens EXCEPT ![w] = @ + 1]
        /\ atoms' = known
        /\ typ' = [typ EXCEPT ![w] = t]
        /\ IF target = None
           THEN WriteInvalidType(w) /\ UNCHANGED wbuf
           ELSE /\ pc' = [pc EXCEPT ![w] = "claim"]
                /\ wbuf' = [wbuf EXCEPT ![w] = b]
                /\ UNCHANGED <<owner, queue, props, ret, status, closes>>

WriteStart(w, fails) ==
    /\ pc[w] = "idle"
    /\ \E lib \in BOOLEAN, t \in WriteTypes, b \in Payloads :
          IF ~lib THEN WriteNoLibrary(w)
          ELSE LET o == OpenLoop(0, fails)
               IN  IF ~o.d THEN WriteUnavailable(w, o)
                   ELSE WriteConnected(w, o, t, b)
    /\ UNCHANGED <<notified, sev, actual, rn, rbuf, claimed, conv, nevt, nreq, nrep, injected>>

ClearEvent == [NoEvent EXCEPT !.type = "SelectionClear", !.selection = sel]

\* XSetSelectionOwner(d, sel, w, CurrentTime): the server makes w the owner and
\* tells the previous owner, a different window, with SelectionClear.
WriteSetOwner(w) ==
    /\ pc[w] = "claim"
    /\ queue' = IF owner \notin {None, w} THEN XSendEvent(queue, owner, ClearEvent) ELSE queue
    /\ owner' = w
    /\ claimed' = claimed \cup {w}
    /\ pc' = [pc EXCEPT ![w] = "verify"]
    /\ UNCHANGED <<atoms, props, typ, wbuf, ret, status, notified, opens, closes, attempts, refused,
                   sev, actual, rn, rbuf, conv, nevt, nreq, nrep, injected>>

\* Faulty variant of WriteOwnershipDenied: the connection is left open.
WriteOwnershipDenied_NoClose(w) ==
    /\ UNCHANGED <<closes, owner, queue, props>>
    /\ SyncStatus(w, -3)
    /\ Return(w, -3)

\* XGetSelectionOwner(d, sel) != w: XCloseDisplay; syncStatus(handle, -3); return -3.
WriteOwnershipDenied(w) ==
    /\ XCloseDisplay(w)
    /\ SyncStatus(w, -3)
    /\ Return(w, -3)

\* Faulty variant of WriteGetOwner: the owner is not compared with w.
WriteGetOwner_Unchecked(w) ==
    /\ pc[w] = "verify"
    /\ pc' = [pc EXCEPT ![w] = "loop"]
    /\ UNCHANGED <<owner, queue, props, closes, status, ret>>
    /\ UNCHANGED <<atoms, typ, wbuf, notified, opens, attempts, refused,
                   sev, actual, rn, rbuf, claimed, conv, nevt, nreq, nrep, injected>>

\* Faulty variant of WriteGetOwner: the comparison is == instead of !=.
WriteGetOwner_Inverted(w) ==
    /\ pc[w] = "verify"
    /\ IF owner = w
       THEN WriteOwnershipDenied(w)
       ELSE /\ pc' = [pc EXCEPT ![w] = "loop"]
            /\ UNCHANGED <<owner, queue, props, closes, status, ret>>
    /\ UNCHANGED <<atoms, typ, wbuf, notified, opens, attempts, refused,
                   sev, actual, rn, rbuf, claimed, conv, nevt, nreq, nrep, injected>>

WriteGetOwner(w) ==
    /\ pc[w] = "verify"
    /\ IF owner # w
       THEN WriteOwnershipDenied(w)
       ELSE /\ pc' = [pc EXCEPT ![w] = "loop"]
            /\ UNCHANGED <<owner, queue, props, closes, status, ret>>
    /\ UNCHANGED <<atoms, typ, wbuf, notified, opens, attempts, refused,
                   sev, actual, rn, rbuf, claimed, conv, nevt, nreq, nrep, injected>>

\* Faulty variant of LoopTop: notified is never set.
LoopTop_NoLatch(w) ==
    IF notified[w] = 0
    THEN /\ SyncStatus(w, 1)
         /\ UNCHANGED notified
    ELSE UNCHANGED <<status, notified>>

\* Top of the for (;;) body: if (notified == 0) { syncStatus(handle, 1); notified = 1; }
LoopTop(w) ==
    IF notified[w] = 0
    THEN /\ SyncStatus(w, 1)
         /\ notified' = [notified EXCEPT ![w] = 1]
    ELSE UNCHANGED <<status, notified>>

\* First pass through the loop top, up to the blocking XNextEvent.
WriteReady(w) ==
    /\ pc[w] = "loop"
    /\ LoopTop(w)
    /\ pc' = [pc EXCEPT ![w] = "wait"]
    /\ UNCHANGED <<atoms, owner, queue, props, typ, wbuf, ret, opens, closes, attempts, refused,
                   sev, actual, rn, rbuf, claimed, conv, nevt, nreq, nrep, injected>>

\* Faulty variant of Serve: text is handed out whatever the declared type is.
Serve_AnyType(w, xsr) ==
    LET ev == [type |-> "SelectionNotify", selection |-> xsr.selection,
               target |-> xsr.target, property |-> xsr.property,
               requestor |-> xsr.requestor]
    IN  IF ev.target = atomString
        THEN LET c == XChangeProperty(props, ev.requestor, ev.property,
                                      atomString, 8, wbuf[w], Len(wbuf[w]))
             IN  [props |-> c.props, ev |-> ev, R |-> c.R]
        ELSE IF ev.target = targetsAtom
        THEN LET c == XChangeProperty(props, ev.requestor, ev.property,
                                      XA_ATOM, 32, <<atomString, atomImage>>, 2)
             IN  [props |-> c.props, ev |-> ev, R |-> c.R]
        ELSE [props |-> props, ev |-> [ev EXCEPT !.property = None], R |-> 0]

\* Faulty variant of Serve: the payload is installed with length 0.
Serve_NoPayload(w, xsr) ==
    LET ev     == [type |-> "SelectionNotify", selection |-> xsr.selection,
                   target |-> xsr.target, property |-> xsr.property,
                   requestor |-> xsr.requestor]
        target == typ[w]
    IN  IF ev.target \in {atomString, atomImage} /\ ev.target = target
        THEN LET c == XChangeProperty(props, ev.requestor, ev.property,
                                      target, 8, wbuf[w], 0)
             IN  [props |-> c.props, ev |-> ev, R |-> c.R]
        ELSE IF ev.target = targetsAtom
        THEN LET c == XChangeProperty(props, ev.requestor, ev.property,
                                      XA_ATOM, 32, <<atomString, atomImage>>, 2)
             IN  [props |-> c.props, ev |-> ev, R |-> c.R]
        ELSE [props |-> props, ev |-> [ev EXCEPT !.property = None], R |-> 0]

\* Faulty variant of Serve: TARGETS lists only the declared type.
Serve_OwnTarget(w, xsr) ==
    LET ev     == [type |-> "SelectionNotify", selection |-> xsr.selection,
                   target |-> xsr.target, property |-> xsr.property,
                   requestor |-> xsr.requestor]
        target == typ[w]
    IN  IF ev.target \in {atomString, atomImage} /\ ev.target = target
        THEN LET c == XChangeProperty(props, ev.requestor, ev.property,
                                      target, 8, wbuf[w], Len(wbuf[w]))
             IN  [props |-> c.props, ev |-> ev, R |-> c.R]
        ELSE IF ev.target = targetsAtom
        THEN LET c == XChangeProperty(props, ev.requestor, ev.property,
                                      XA_ATOM, 32, <<target>>, 1)
             IN  [props |-> c.props, ev |-> ev, R |-> c.R]
        ELSE [props |-> props, ev |-> [ev EXCEPT !.property = None], R |-> 0]

\* case SelectionRequest, from building ev to the decision on ev.property.
Serve(w, xsr) ==
    LET ev     == [type |-> "SelectionNotify", selection |-> xsr.selection,
                   target |-> xsr.target, property |-> xsr.property,
                   requestor |-> xsr.requestor]
        target == typ[w]
    IN  IF ev.target = atomString /\ ev.target = target
        THEN LET c == XChangeProperty(props, ev.requestor, ev.property,
                                      atomString, 8, wbuf[w], Len(wbuf[w]))
             IN  [props |-> c.props, ev |-> ev, R |-> c.R]
        ELSE IF ev.target = atomImage /\ ev.target = target
        THEN LET c == XChangeProperty(props, ev.requestor, ev.property,
                                      atomImage, 8, wbuf[w], Len(wbuf[w]))
             IN  [props |-> c.props, ev |-> ev, R |-> c.R]
        ELSE IF ev.target = targetsAtom
        THEN LET c == XChangeProperty(props, ev.requestor, ev.property,
                                      XA_ATOM, 32, <<atomString, atomImage>>, 2)
             IN  [props |-> c.props, ev |-> ev, R |-> c.R]
        ELSE [props |-> props, ev |-> [ev EXCEPT !.property = None], R |-> 0]

\* Faulty variant of WriteSelectionClear: the loss is reported as an error.
WriteSelectionClear_AsError(w) ==
    /\ XCloseDisplay(w)
    /\ Return(w, -3)
    /\ UNCHANGED <<status, notified, nreq, nrep>>

\* case SelectionClear: XCloseDisplay(d); return 0.
WriteSelectionClear(w) ==
    /\ XCloseDisplay(w)
    /\ Return(w, 0)
    /\ UNCHANGED <<status, notified, nreq, nrep>>

\* Faulty variant of WriteSelectionRequest: a refusal is not sent.
WriteSelectionRequest_SilentRefusal(w, e) ==
    LET rest == [queue EXCEPT ![w] = Tail(@)]
    IN  /\ nreq' = [nreq EXCEPT ![w] = @ + 1]
        /\ IF e.selection # sel
           THEN /\ queue' = rest
                /\ UNCHANGED <<props, nrep>>
           ELSE LET s == Serve(w, e)
                IN  /\ props' = s.props
                    /\ IF s.ev.property # None
                       THEN /\ queue' = XSendEvent(rest, s.ev.requestor, s.ev)
                            /\ nrep' = [nrep EXCEPT ![w] = @ + 1]
                       ELSE /\ queue' = rest
                            /\ UNCHANGED nrep
        /\ LoopTop(w)
        /\ UNCHANGED <<owner, closes, pc, ret>>

\* case SelectionRequest.
WriteSelectionRequest(w, e) ==
    LET rest == [queue EXCEPT ![w] = Tail(@)]
    IN  /\ nreq' = [nreq EXCEPT ![w] = @ + 1]
        /\ IF e.selection # sel
           THEN /\ queue' = rest
                /\ UNCHANGED <<props, nrep>>
           ELSE LET s == Serve(w, e)
                IN  /\ props' = s.props
                    /\ IF BitAnd2(s.R) = 0
                       THEN /\ queue' = XSendEvent(rest, s.ev.requestor, s.ev)
                            /\ nrep' = [nrep EXCEPT ![w] = @ + 1]
                       ELSE /\ queue' = rest
                            /\ UNCHANGED nrep
        /\ LoopTop(w)
        /\ UNCHANGED <<owner, closes, pc, ret>>

\* Faulty variant of WriteOtherEvent: an unexpected event ends the loop.
WriteOtherEvent_Quits(w) ==
    /\ XCloseDisplay(w)
    /\ Return(w, -1)
    /\ UNCHANGED <<status, notified, nreq, nrep>>

\* case SelectionNotify, and every event type the switch has no case for.
WriteOtherEvent(w) ==
    /\ queue' = [queue EXCEPT ![w] = Tail(@)]
    /\ LoopTop(w)
    /\ UNCHANGED <<owner, props, closes, pc, ret, nreq, nrep>>

\* XNextEvent returned an event: the switch, then the loop top again.
WriteNextEvent(w) ==
    /\ pc[w] = "wait"
    /\ queue[w] # <<>>
    /\ LET e == Head(queue[w])
       IN  CASE e.type = "SelectionClear"   -> WriteSelectionClear(w)
             [] e.type = "SelectionRequest" -> WriteSelectionRequest(w, e)
             [] OTHER                       -> WriteOtherEvent(w)
    /\ nevt' = [nevt EXCEPT ![w] = @ + 1]
    /\ UNCHANGED <<atoms, typ, wbuf, opens, attempts, refused,
                   sev, actual, rn, rbuf, claimed, conv, injected>>

(***************************************************************************)
(* clipboard_read and read_data.  The unsigned long results -1 and -2 are  *)
(* kept as the signed codes the caller reads them as.                      *)
(***************************************************************************)
\* Faulty variant of ReadConnected: typ is interned with only_if_exists False.
ReadConnected_Create(r, o, t) ==
    LET known  == atoms \cup {sel, prop, t}
        target == XInternAtom(known, t, FALSE)
    IN  /\ attempts' = [attempts EXCEPT ![r] = o.tries]
        /\ refused' = [refused EXCEPT ![r] = o.refused]
        /\ opens' = [opens EXCEPT ![r] = @ + 1]
        /\ atoms' = known
        /\ typ' = [typ EXCEPT ![r] = t]
        /\ IF target = None
           THEN XCloseDisplay(r) /\ Return(r, -2)
           ELSE /\ pc' = [pc EXCEPT ![r] = "convert"]
                /\ UNCHANGED <<owner, queue, props, ret, closes>>

\* The window and the three XInternAtom calls.
ReadConnected(r, o, t) ==
    LET known  == atoms \cup {sel, prop}
        target == XInternAtom(known, t, TRUE)
    IN  /\ attempts' = [attempts EXCEPT ![r] = o.tries]
        /\ refused' = [refused EXCEPT ![r] = o.refused]
        /\ opens' = [opens EXCEPT ![r] = @ + 1]
        /\ atoms' = known
        /\ typ' = [typ EXCEPT ![r] = t]
        /\ IF target = None
           THEN XCloseDisplay(r) /\ Return(r, -2)
           ELSE /\ pc' = [pc EXCEPT ![r] = "convert"]
                /\ UNCHANGED <<owner, queue, props, ret, closes>>

ReadStart(r, fails) ==
    /\ pc[r] = "idle"
    /\ \E lib \in BOOLEAN, t \in ReadTypes :
          IF ~lib
          THEN /\ Return(r, -1)
               /\ UNCHANGED <<atoms, owner, queue, props, typ, opens, closes, attempts, refused>>
          ELSE LET o == OpenLoop(0, fails)
               IN  IF ~o.d
                   THEN /\ attempts' = [attempts EXCEPT ![r] = o.tries]
                        /\ refused' = [refused EXCEPT ![r] = o.refused]
                        /\ Return(r, -1)
                        /\ UNCHANGED <<atoms, owner, queue, props, typ, opens, closes>>
                   ELSE ReadConnected(r, o, t)
    /\ UNCHANGED <<wbuf, status, notified, sev, actual, rn, rbuf, claimed, conv,
                   nevt, nreq, nrep, injected>>

\* XConvertSelection(d, sel, target, prop, w, CurrentTime): the server hands the
\* request to the owner, or answers property None itself when nobody owns sel.
ReadConvert(r) ==
    /\ pc[r] = "convert"
    /\ LET e == [type |-> "SelectionRequest", selection |-> sel, target |-> typ[r],
                 property |-> prop, requestor |-> r]
       IN  queue' = IF owner = None
                    THEN XSendEvent(queue, r, [e EXCEPT !.type = "SelectionNotify",
                                                        !.property = None])
                    ELSE XSendEvent(queue, owner, e)
    /\ conv' = [conv EXCEPT ![r] =
                  [issued |-> TRUE,
                   owner |-> owner,
                   serving |-> owner \in Writers /\ pc[owner] \in {"loop", "wait"},
                   ready |-> {w \in Writers : 1 \in {status[w][i] : i \in DOMAIN status[w]}}]]
    /\ pc' = [pc EXCEPT ![r] = "wait"]
    /\ UNCHANGED <<atoms, owner, props, typ, wbuf, ret, status, notified, opens, closes,
                   attempts, refused, sev, actual, rn, rbuf, claimed, nevt, nreq, nrep, injected>>

\* for (;;) { XNextEvent; if (event.type != SelectionNotify) continue; break; }
ReadNextEvent(r) ==
    /\ pc[r] = "wait"
    /\ queue[r] # <<>>
    /\ LET e == Head(queue[r])
       IN  IF e.type # "SelectionNotify"
           THEN UNCHANGED <<pc, sev>>
           ELSE /\ sev' = [sev EXCEPT ![r] = e]
                /\ pc' = [pc EXCEPT ![r] = "read"]
    /\ queue' = [queue EXCEPT ![r] = Tail(@)]
    /\ UNCHANGED <<atoms, owner, props, typ, wbuf, ret, status, notified, opens, closes,
                   attempts, refused, actual, rn, rbuf, claimed, conv, nevt, nreq, nrep, injected>>

\* Faulty variant of ReadData: the selection named by the event is not compared.
ReadData_AnySelection(r) ==
    /\ pc[r] = "read"
    /\ LET e      == sev[r]
           target == typ[r]
       IN  IF e.property = None \/ e.property # prop
           THEN /\ rn' = [rn EXCEPT ![r] = 0]
                /\ UNCHANGED <<props, actual, rbuf>>
           ELSE IF ~WindowExists(e.requestor)
           THEN \* ret != Success
                /\ rn' = [rn EXCEPT ![r] = 0]
                /\ UNCHANGED <<props, actual, rbuf>>
           ELSE LET v    == props[e.requestor][e.property]
                    size == Len(v.data)
                    data == ClientData(v.format, v.data)
                IN  /\ actual' = [actual EXCEPT ![r] = v.type]
                    /\ rbuf' = IF v.type = target
                               THEN [rbuf EXCEPT ![r] = <<Memcpy(data, size)>>]
                               ELSE rbuf
                    \* XDeleteProperty
                    /\ props' = [props EXCEPT ![e.requestor][e.property] = NoProp]
                    /\ rn' = [rn EXCEPT ![r] = size]
    /\ pc' = [pc EXCEPT ![r] = "close"]
    /\ UNCHANGED <<atoms, owner, queue, typ, wbuf, ret, status, notified, opens, closes,
                   attempts, refused, sev, claimed, conv, nevt, nreq, nrep, injected>>

\* Faulty variant of ReadData: the property is left on the window.
ReadData_NoDelete(r) ==
    /\ pc[r] = "read"
    /\ LET e      == sev[r]
           target == typ[r]
       IN  IF e.property = None \/ e.selection # sel \/ e.property # prop
           THEN /\ rn' = [rn EXCEPT ![r] = 0]
                /\ UNCHANGED <<props, actual, rbuf>>
           ELSE IF ~WindowExists(e.requestor)
           THEN \* ret != Success
                /\ rn' = [rn EXCEPT ![r] = 0]
                /\ UNCHANGED <<props, actual, rbuf>>
           ELSE LET v    == props[e.requestor][e.property]
                    size == Len(v.data)
                    data == ClientData(v.format, v.data)
                IN  /\ actual' = [actual EXCEPT ![r] = v.type]
                    /\ rbuf' = IF v.type = target
                               THEN [rbuf EXCEPT ![r] = <<Memcpy(data, size)>>]
                               ELSE rbuf
                    /\ props' = props
                    /\ rn' = [rn EXCEPT ![r] = size]
    /\ pc' = [pc EXCEPT ![r] = "close"]
    /\ UNCHANGED <<atoms, owner, queue, typ, wbuf, ret, status, notified, opens, closes,
                   attempts, refused, sev, claimed, conv, nevt, nreq, nrep, injected>>

\* read_data(sev, sel, prop, target, buf), buf not NULL.
ReadData(r) ==
    /\ pc[r] = "read"
    /\ LET e      == sev[r]
           target == typ[r]
       IN  IF e.property = None \/ e.selection # sel \/ e.property # prop
           THEN /\ rn' = [rn EXCEPT ![r] = 0]
                /\ UNCHANGED <<props, actual, rbuf>>
           ELSE IF ~WindowExists(e.requestor)
           THEN \* ret != Success
                /\ rn' = [rn EXCEPT ![r] = 0]
                /\ UNCHANGED <<props, actual, rbuf>>
           ELSE LET v    == props[e.requestor][e.property]
                    size == Len(v.data)
                    data == ClientData(v.format, v.data)
                IN  /\ actual' = [actual EXCEPT ![r] = v.type]
                    /\ rbuf' = IF v.type = target
                               THEN [rbuf EXCEPT ![r] = <<Memcpy(data, size)>>]
                               ELSE rbuf
                    \* XDeleteProperty
                    /\ props' = [props EXCEPT ![e.requestor][e.property] = NoProp]
                    /\ rn' = [rn EXCEPT ![r] = size]
    /\ pc' = [pc EXCEPT ![r] = "close"]
    /\ UNCHANGED <<atoms, owner, queue, typ, wbuf, ret, status, notified, opens, closes,
                   attempts, refused, sev, claimed, conv, nevt, nreq, nrep, injected>>

\* XCloseDisplay(d); return n.
ReadClose(r) ==
    /\ pc[r] = "close"
    /\ XCloseDisplay(r)
    /\ Return(r, rn[r])
    /\ UNCHANGED <<atoms, typ, wbuf, status, notified, opens, attempts, refused,
                   sev, actual, rn, rbuf, claimed, conv, nevt, nreq, nrep, injected>>

(***************************************************************************)
(* clipboard_test                                                          *)
(***************************************************************************)
TestRun(t, fails) ==
    /\ pc[t] = "idle"
    /\ \E lib \in BOOLEAN :
          IF ~lib
          THEN /\ Return(t, -1)
               /\ UNCHANGED <<opens, closes, attempts, refused>>
          ELSE LET o == OpenLoop(0, fails)
               IN  /\ attempts' = [attempts EXCEPT ![t] = o.tries]
                   /\ refused' = [refused EXCEPT ![t] = o.refused]
                   /\ IF ~o.d
                      THEN /\ Return(t, -1)
                           /\ UNCHANGED <<opens, closes>>
                      ELSE /\ opens' = [opens EXCEPT ![t] = @ + 1]
                           /\ closes' = [closes EXCEPT ![t] = @ + 1]
                           /\ Return(t, 0)
    /\ UNCHANGED <<atoms, owner, queue, props, typ, wbuf, status, notified,
                   sev, actual, rn, rbuf, claimed, conv, nevt, nreq, nrep, injected>>

(***************************************************************************)
(* Another X client: XSendEvent of a synthetic selection event to the      *)
(* window of one of the operations.                                        *)
(***************************************************************************)
InjectedEvents ==
    {[type |-> "SelectionRequest", selection |-> "PRIMARY", target |-> atomString,
      property |-> prop, requestor |-> q] : q \in Readers}
    \cup
    {[type |-> "SelectionRequest", selection |-> sel, target |-> "STRING",
      property |-> prop, requestor |-> q] : q \in Readers}
    \cup
    {[type |-> "SelectionNotify", selection |-> s, target |-> atomString,
      property |-> n, requestor |-> q] :
        s \in {sel, "PRIMARY"}, n \in {prop, "OTHER"}, q \in Readers}
    \cup
    {[NoEvent EXCEPT !.type = "ClientMessage"], ClearEvent}

Inject(p, e) ==
    /\ injected < MaxInject
    /\ WindowExists(p)
    /\ p \notin Testers
    /\ queue' = XSendEvent(queue, p, e)
    /\ injected' = injected + 1
    /\ UNCHANGED <<atoms, owner, props, pc, typ, wbuf, ret, status, notified, opens, closes,
                   attempts, refused, sev, actual, rn, rbuf, claimed, conv, nevt, nreq, nrep>>

(***************************************************************************)
(* Specifications.                                                         *)
(***************************************************************************)
\* The state before the host calls the operations of the set called; the others
\* are never called in the run.
InitFor(called) ==
    /\ atoms = PredefinedAtoms
    /\ owner = None
    /\ queue = [p \in Procs |-> <<>>]
    /\ props = [p \in Procs |-> NoProps]
    /\ pc = [p \in Procs |-> IF p \in called THEN "idle" ELSE "off"]
    /\ typ = [p \in Procs |-> None]
    /\ wbuf = [w \in Writers |-> <<>>]
    /\ ret = [p \in Procs |-> <<>>]
    /\ status = [w \in Writers |-> <<>>]
    /\ notified = [w \in Writers |-> 0]
    /\ opens = [p \in Procs |-> 0]
    /\ closes = [p \in Procs |-> 0]
    /\ attempts = [p \in Procs |-> 0]
    /\ refused = [p \in Procs |-> 0]
    /\ sev = [r \in Readers |-> NoEvent]
    /\ actual = [r \in Readers |-> None]
    /\ rn = [r \in Readers |-> 0]
    /\ rbuf = [r \in Readers |-> <<>>]
    /\ claimed = {}
    /\ conv = [r \in Readers |-> NoConv]
    /\ nevt = [w \in Writers |-> 0]
    /\ nreq = [w \in Writers |-> 0]
    /\ nrep = [w \in Writers |-> 0]
    /\ injected = 0

\* clipboard_test shares no state with the other operations: a run has either
\* the writers and the reader, or the probe.
Scenarios == {Writers \cup Readers, Testers}

Init == \E called \in Scenarios : InitFor(called)

WriterStep(w) ==
    \/ \E f \in QuickOutcomes : WriteStart(w, f)
    \/ WriteSetOwner(w)
    \/ WriteGetOwner(w)
    \/ WriteReady(w)
    \/ WriteNextEvent(w)

ReaderStep(r) ==
    \/ \E f \in QuickOutcomes : ReadStart(r, f)
    \/ ReadConvert(r)
    \/ ReadNextEvent(r)
    \/ ReadData(r)
    \/ ReadClose(r)

Next ==
    \/ \E w \in Writers, f \in QuickOutcomes : WriteStart(w, f)
    \/ \E w \in Writers : WriteSetOwner(w)
    \/ \E w \in Writers : WriteGetOwner(w)
    \/ \E w \in Writers : WriteReady(w)
    \/ \E w \in Writers : WriteNextEvent(w)
    \/ \E r \in Readers, f \in QuickOutcomes : ReadStart(r, f)
    \/ \E r \in Readers : ReadConvert(r)
    \/ \E r \in Readers : ReadNextEvent(r)
    \/ \E r \in Readers : ReadData(r)
    \/ \E r \in Readers : ReadClose(r)
    \/ \E t \in Testers, f \in QuickOutcomes : TestRun(t, f)

\* The library's own operations, against one X server.
Spec == Init /\ [][Next]_vars

NextW ==
    \/ \E w \in Writers, f \in QuickOutcomes : WriteStart(w, f)
    \/ \E w \in Writers : WriteSetOwner(w)
    \/ \E w \in Writers : WriteGetOwner(w)
    \/ \E w \in Writers : WriteReady(w)
    \/ \E w \in Writers : WriteNextEvent(w)

InitW == InitFor(Writers)

\* The writers alone, each one's thread scheduled fairly: a thread that can
\* take a step (XNextEvent has an event to return) eventually takes one.
FairSpec ==
    /\ InitW
    /\ [][NextW]_vars
    /\ \A w \in Writers : WF_vars(WriterStep(w))

NextX ==
    \/ \E w \in Writers, f \in QuickOutcomes : WriteStart(w, f)
    \/ \E w \in Writers : WriteSetOwner(w)
    \/ \E w \in Writers : WriteGetOwner(w)
    \/ \E w \in Writers : WriteReady(w)
    \/ \E w \in Writers : WriteNextEvent(w)
    \/ \E r \in Readers, f \in QuickOutcomes : ReadStart(r, f)
    \/ \E r \in Readers : ReadConvert(r)
    \/ \E r \in Readers : ReadNextEvent(r)
    \/ \E r \in Readers : ReadData(r)
    \/ \E r \in Readers : ReadClose(r)
    \/ \E p \in Procs, e \in InjectedEvents : Inject(p, e)

InitX == InitFor({"w1"} \cup Readers)

\* One writer and the reader on a server shared with a client that sends
\* synthetic events.
SpecX == InitX /\ [][NextX]_vars

NextOpen ==
    \/ \E w \in Writers, f \in AllOutcomes : WriteStart(w, f)
    \/ \E r \in Readers, f \in AllOutcomes : ReadStart(r, f)
    \/ \E t \in Testers, f \in AllOutcomes : TestRun(t, f)

InitOpen == \E p \in Procs : InitFor({p})

\* One operation, from its call to the end of its connection loop, against
\* every outcome of the display server.
SpecOpen == InitOpen /\ [][NextOpen]_vars

NextR ==
    \/ \E w \in Writers, f \in QuickOutcomes : WriteStart(w, f)
    \/ \E w \in Writers : WriteSetOwner(w)
    \/ \E w \in Writers : WriteGetOwner(w)
    \/ \E w \in Writers : WriteReady(w)
    \/ \E w \in Writers : WriteNextEvent(w)
    \/ \E r \in Readers, f \in QuickOutcomes : ReadStart(r, f)
    \/ \E r \in Readers : ReadConvert(r)
    \/ \E r \in Readers : ReadNextEvent(r)
    \/ \E r \in Readers : ReadData(r)
    \/ \E r \in Readers : ReadClose(r)

\* One writer and the reader, each thread scheduled fairly.
FairSpecR ==
    /\ InitX
    /\ [][NextR]_vars
    /\ \A w \in Writers : WF_vars(WriterStep(w))
    /\ \A r \in Readers : WF_vars(ReaderStep(r))

(***************************************************************************)
(* Properties.                                                             *)
(***************************************************************************)
Supported == {atomString, atomImage}

\* The writer passed the ownership verification.
Passed(w) == pc[w] \in {"loop", "wait"} \/ ret[w] = <<0>>

\* The writer failed the ownership verification.
Denied(w) == ret[w] = <<-3>>

\* How often the ready status was handed to syncStatus.
ReadyCount(w) == Cardinality({i \in DOMAIN status[w] : status[w][i] = 1})

\* C1: a read of a supported type T issued while a writer of T is serving and
\* owns the selection returns exactly that writer's bytes: same length, same
\* contents.
C1_RoundTrip ==
    \A r \in Readers, w \in Writers :
        (/\ pc[r] = "done"
         /\ conv[r].owner = w
         /\ conv[r].serving
         /\ typ[r] \in Supported
         /\ typ[w] = typ[r])
        => (ret[r] = <<Len(wbuf[w])>> /\ rbuf[r] = <<wbuf[w]>>)

C1_Witness ==
    \E r \in Readers, w \in Writers :
        /\ pc[r] = "done"
        /\ conv[r].owner = w
        /\ conv[r].serving
        /\ typ[r] = atomImage
        /\ typ[w] = typ[r]
        /\ Len(wbuf[w]) = MaxLen
        /\ rbuf[r] = <<wbuf[w]>>

\* C2: a read of TARGETS issued while a writer is serving hands its caller a
\* buffer holding the two supported type identifiers.
C2_TargetsRead ==
    \A r \in Readers :
        (pc[r] = "done" /\ typ[r] = targetsAtom /\ conv[r].serving)
        => rbuf[r] = <<ClientData(32, <<atomString, atomImage>>)>>

C4_EveryRequestAnswered ==
    \A w \in Writers : nrep[w] = nreq[w]

\* C5: a read whose SelectionNotify names the staging property while the stored
\* type differs from the requested one copies nothing and returns length 0.
C5_MismatchIsEmpty ==
    \A r \in Readers :
        (/\ pc[r] \in {"close", "done"}
         /\ sev[r].property = prop
         /\ sev[r].selection = sel
         /\ actual[r] # typ[r])
        => (rbuf[r] = <<>> /\ rn[r] = 0)

\* C6: a write whose type does not resolve returns -2, having issued no
\* XSetSelectionOwner and emitted no ready status; the step that returns -2
\* leaves the selection owner as it was.
C6_InvalidType ==
    /\ [](\A w \in Writers :
            /\ (opens[w] > 0 /\ typ[w] \notin atoms) => ret[w] = <<-2>>
            /\ ret[w] = <<-2>> =>
                  (typ[w] \notin atoms /\ w \notin claimed /\ ReadyCount(w) = 0))
    /\ [][\A w \in Writers :
            (ret[w] = <<>> /\ ret'[w] = <<-2>>) => owner' = owner]_vars

C6_Witness ==
    \E w, v \in Writers :
        /\ ret[w] = <<-2>>
        /\ owner = v
        /\ pc[v] = "wait"

\* C7: a serving writer that is no longer the owner eventually returns 0 with
\* its connection closed.
C7_CleanLoss ==
    \A w \in Writers :
        (pc[w] \in {"loop", "wait"} /\ owner # w)
        ~> (pc[w] = "done" /\ ret[w] = <<0>> /\ closes[w] = opens[w])

C7_Witness ==
    \E w \in Writers :
        /\ pc[w] = "done"
        /\ ret[w] = <<0>>
        /\ closes[w] = 1
        /\ owner \in Writers \ {w}

\* C8: the ready status is emitted at most once, only by a writer that passed
\* the verification, and before that writer takes any event or sends any reply.
C8_ReadyOnceFirst ==
    \A w \in Writers :
        /\ ReadyCount(w) <= 1
        /\ ReadyCount(w) = 1 => Passed(w)
        /\ (nevt[w] > 0 \/ nrep[w] > 0) => ReadyCount(w) = 1

C8_Witness ==
    \E w \in Writers :
        /\ pc[w] = "wait"
        /\ nevt[w] > 0
        /\ nrep[w] > 0
        /\ status[w] = <<1>>

\* C9: a write that returned a negative code c emitted exactly the status c.
C9_NegativeCodeNotified ==
    \A w \in Writers :
        (ret[w] # <<>> /\ ret[w][1] < 0) => status[w] = ret[w]

\* C10: no connection is closed twice or before it was opened, and an
\* operation that has returned has closed the connection it opened.
C10_ClosedOnce ==
    \A p \in Procs :
        /\ opens[p] <= 1
        /\ closes[p] <= opens[p]
        /\ pc[p] = "done" => closes[p] = opens[p]

C10_Witness ==
    /\ \E w \in Writers : ret[w] = <<-3>> /\ opens[w] = 1 /\ closes[w] = 1
    /\ \E r \in Readers : pc[r] = "done" /\ opens[r] = 1 /\ closes[r] = 1
                              /\ conv[r].owner # None

\* C11: a read whose type does not resolve returns -2 with its connection
\* closed, in the step that found the type unresolved: no XConvertSelection was
\* issued and no event was waited for or taken.
C11_ReadInvalidType ==
    /\ [](\A r \in Readers :
            ret[r] = <<-2>> =>
               (/\ closes[r] = 1 /\ opens[r] = 1
                /\ ~conv[r].issued
                /\ sev[r] = NoEvent))
    /\ [][\A r \in Readers :
            (pc[r] = "idle" /\ opens'[r] = 1) =>
               /\ (typ'[r] \notin atoms) <=> (ret'[r] = <<-2>>)
               /\ ret'[r] = <<-2>> => (queue' = queue /\ owner' = owner)]_vars

C11_Witness ==
    \E r \in Readers, w \in Writers :
        /\ ret[r] = <<-2>>
        /\ typ[r] = atomString
        /\ owner = w
        /\ pc[w] = "wait"

\* The writer's step that takes an event from its queue.
TakesEvent(w) == pc[w] = "wait" /\ nevt'[w] = nevt[w] + 1

\* C12: a serving writer leaves the loop only by taking a SelectionClear; taking
\* any other event leaves it serving, its connection open, its payload and its
\* declared type unchanged.
C12_OnlyClearEnds ==
    /\ [][\A w \in Writers :
            TakesEvent(w) =>
               IF Head(queue[w]).type = "SelectionClear"
               THEN pc'[w] = "done"
               ELSE /\ pc'[w] = "wait"
                    /\ ret'[w] = <<>>
                    /\ opens'[w] = opens[w] /\ closes'[w] = closes[w]
                    /\ wbuf'[w] = wbuf[w]
                    /\ typ'[w] = typ[w]]_vars
    /\ [][\A w \in Writers :
            (pc[w] \in {"loop", "wait"} /\ pc'[w] \notin {"loop", "wait"}) =>
               (TakesEvent(w) /\ Head(queue[w]).type = "SelectionClear")]_vars

C12_Witness ==
    \E w \in Writers :
        /\ pc[w] = "wait"
        /\ nevt[w] > nreq[w]
        /\ opens[w] > closes[w]

\* The writer's step that takes a SelectionRequest for CLIPBOARD.
TakesRequest(w) ==
    /\ TakesEvent(w)
    /\ Head(queue[w]).type = "SelectionRequest"
    /\ Head(queue[w]).selection = sel

\* The SelectionNotify answering request e and naming property p.
Reply(e, p) ==
    [type |-> "SelectionNotify", selection |-> e.selection, target |-> e.target,
     property |-> p, requestor |-> e.requestor]

\* The requestor of e is sent ev, when its window still exists.
Answers(e, ev) ==
    WindowExists(e.requestor) =>
        queue'[e.requestor] = Append(queue[e.requestor], ev)

\* C13: a writer answering a CLIPBOARD request for a target other than TARGETS
\* installs its payload (type = the target, 8-bit units) and names the property
\* only when the target is its declared type and that type is UTF8_STRING or
\* image/png; otherwise it writes no property and replies with property None.
C13_InstallOnlyOwnType ==
    [][\A w \in Writers :
         (TakesRequest(w) /\ Head(queue[w]).target # targetsAtom) =>
            LET e == Head(queue[w])
            IN  IF e.target = typ[w] /\ typ[w] \in Supported
                THEN /\ WindowExists(e.requestor) =>
                           props' = [props EXCEPT ![e.requestor][e.property] =
                                        [type |-> typ[w], format |-> 8,
                                         data |-> wbuf[w]]]
                     /\ Answers(e, Reply(e, e.property))
                ELSE /\ props' = props
                     /\ Answers(e, Reply(e, None))]_vars

C13_Witness ==
    \E r \in Readers, w \in Writers :
        /\ conv[r].owner = w /\ conv[r].serving
        /\ typ[r] \in Supported /\ typ[w] \in Supported /\ typ[w] # typ[r]
        /\ sev[r].type = "SelectionNotify" /\ sev[r].property = None
        /\ props[r][prop] = NoProp
        /\ pc[w] = "wait"

\* C14: a writer answering a CLIPBOARD request for TARGETS stores the list
\* <<UTF8_STRING, image/png>> as 32-bit atoms in the requestor's property and
\* names that property in its reply, whatever its declared type.
C14_TargetsList ==
    [][\A w \in Writers :
         (TakesRequest(w) /\ Head(queue[w]).target = targetsAtom) =>
            LET e == Head(queue[w])
            IN  /\ WindowExists(e.requestor) =>
                      props' = [props EXCEPT ![e.requestor][e.property] =
                                   [type |-> XA_ATOM, format |-> 32,
                                    data |-> <<atomString, atomImage>>]]
                /\ Answers(e, Reply(e, e.property))]_vars

C14_Witness ==
    \E r \in Readers, w \in Writers :
        /\ conv[r].owner = w /\ conv[r].serving
        /\ typ[r] = targetsAtom /\ typ[w] \notin Supported
        /\ sev[r].type = "SelectionNotify" /\ sev[r].property = prop
        /\ props[r][prop].data = <<atomString, atomImage>>
        /\ pc[r] = "read"

\* C15 as stated: a connection loop stops at the first successful XOpenDisplay,
\* makes at most 42 calls, and an operation that returned reports -1 exactly
\* when all 42 calls failed.
C15_UnavailableIffAllFail ==
    \A p \in Procs :
        /\ attempts[p] <= MaxAttempts
        /\ opens[p] = 1 => attempts[p] = refused[p] + 1
        /\ pc[p] \notin {"idle", "off"} =>
              (ret[p] = <<-1>> <=> (attempts[p] = MaxAttempts /\ opens[p] = 0))

\* C15, amended: a connection loop stops at the first successful XOpenDisplay
\* and makes at most 42 calls; an operation that returned reports -1 exactly
\* when all 42 calls failed or when libX11 could not be loaded, in which case
\* no call was made.
C15_UnavailableIffNoConnection ==
    \A p \in Procs :
        /\ attempts[p] <= MaxAttempts
        /\ opens[p] = 1 => attempts[p] = refused[p] + 1
        /\ pc[p] \notin {"idle", "off"} =>
              (ret[p] = <<-1>> <=>
                  \/ attempts[p] = 0
                  \/ attempts[p] = MaxAttempts /\ opens[p] = 0
                                               /\ refused[p] >= MaxAttempts)

C15_Witness ==
    \E p \in Procs :
        /\ opens[p] = 1
        /\ refused[p] = MaxAttempts - 1
        /\ attempts[p] = MaxAttempts
        /\ ret[p] # <<-1>>

\* The checks of read_data on the event: property None, another selection,
\* another property.
Mismatch(e) == e.property = None \/ e.selection # sel \/ e.property # prop

\* C16: a read whose SelectionNotify names property None, a selection other
\* than CLIPBOARD or a property other than the staging property reads and
\* deletes no window property, leaves the caller's buffer as it was and
\* returns 0.
C16_MismatchReadsNothing ==
    /\ [][\A r \in Readers :
            (pc[r] = "read" /\ pc'[r] = "close" /\ Mismatch(sev[r])) =>
               /\ rn'[r] = 0
               /\ rbuf' = rbuf
               /\ actual' = actual
               /\ props' = props]_vars
    /\ [](\A r \in Readers :
            (pc[r] = "done" /\ sev[r].type = "SelectionNotify" /\ Mismatch(sev[r])) =>
               (ret[r] = <<0>> /\ rbuf[r] = <<>>))

C16_Witness ==
    \E r \in Readers, w \in Writers :
        /\ pc[r] = "done" /\ ret[r] = <<0>>
        /\ sev[r].selection = "PRIMARY" /\ sev[r].property = prop
        /\ conv[r].owner = w /\ conv[r].serving
        /\ typ[r] = typ[w] /\ typ[w] \in Supported /\ wbuf[w] # <<>>
        /\ nrep[w] = 1

\* C17: once read_data has run on a SelectionNotify naming the staging
\* property of CLIPBOARD, the staging property is gone from the reader's
\* window, whether the stored type was the requested one or not.
C17_StagingDeleted ==
    \A r \in Readers :
        (pc[r] \in {"close", "done"} /\ ~Mismatch(sev[r])) =>
            props[r][prop] = NoProp

C17_Witness ==
    \E r \in Readers, w \in Writers :
        /\ pc[r] = "close"
        /\ ~Mismatch(sev[r])
        /\ conv[r].owner = w /\ conv[r].serving
        /\ actual[r] = XA_ATOM /\ typ[r] = targetsAtom
        /\ rn[r] = 2

\* C18: a read that issued its conversion to an owner that is serving
\* eventually returns.
C18_ReadReturns ==
    \A r \in Readers :
        (pc[r] = "wait" /\ conv[r].serving) ~> (pc[r] = "done")

C18_Witness ==
    \E r \in Readers, w \in Writers :
        /\ pc[r] = "done" /\ conv[r].serving /\ conv[r].owner = w
        /\ typ[r] \in Supported /\ typ[w] # typ[r]
        /\ ret[r] = <<0>>
        /\ pc[w] = "wait"

\* The step in which writer w hands the ready status to syncStatus.
EmitsReady(w) == ReadyCount(w) = 0 /\ ReadyCount(w)' = 1

\* A SelectionClear is waiting in the writer's queue.
ClearPending(w) == \E i \in DOMAIN queue[w] : queue[w][i] = ClearEvent

\* C19 as stated: at the step in which a writer emits the ready status, its
\* window is the owner of CLIPBOARD.
C19_ReadyMeansOwner ==
    [][\A w \in Writers : EmitsReady(w) => owner = w]_vars

\* C19, amended: a writer emits the ready status only after XGetSelectionOwner
\* returned its own window; at the emission it is still the owner unless another
\* writer has claimed the selection since, and then a SelectionClear is already
\* queued for it.
C19_ReadyAfterVerified ==
    /\ [][\A w \in Writers :
            (pc[w] = "verify" /\ pc'[w] = "loop") => owner = w]_vars
    /\ [][\A w \in Writers :
            EmitsReady(w) =>
               /\ pc[w] = "loop"
               /\ \/ owner = w
                  \/ owner \in Writers \ {w} /\ ClearPending(w)]_vars

C19_Witness ==
    \E w \in Writers :
        /\ status[w] = <<1>>
        /\ pc[w] = "wait" /\ nevt[w] = 0
        /\ owner \in Writers \ {w}
        /\ ClearPending(w)

\* C20: a read for B's type issued when writers A and B have both emitted the
\* ready status and B, the later claimant, owns the selection returns B's
\* payload.
C20_LastWriterWins ==
    \A r \in Readers, A \in Writers, B \in Writers :
        (/\ A # B
         /\ pc[r] = "done"
         /\ conv[r].ready = {A, B}
         /\ conv[r].owner = B
         /\ typ[r] = typ[B]
         /\ typ[B] \in Supported)
        => (ret[r] = <<Len(wbuf[B])>> /\ rbuf[r] = <<wbuf[B]>>)

C20_Witness ==
    \E r \in Readers, A \in Writers, B \in Writers :
        /\ A # B
        /\ pc[r] = "done"
        /\ conv[r].ready = {A, B}
        /\ conv[r].owner = B
        /\ typ[r] = typ[B] /\ typ[A] = typ[B] /\ typ[B] \in Supported
        /\ wbuf[A] # wbuf[B] /\ wbuf[A] # <<>>
        /\ rbuf[r] = <<wbuf[B]>>
        /\ pc[A] = "wait" /\ nevt[A] = 0 /\ ClearPending(A)

====
